---- MODULE Spec2Model ----
(***************************************************************************)
(* A model of kr8s/_config.py: KubeConfig (one kubeconfig document and its *)
(* backing file) and KubeConfigSet (an ordered list of KubeConfig objects  *)
(* presented as one merged configuration).                                *)
(***************************************************************************)
EXTENDS Integers, Sequences, FiniteSets, TLC

VARIABLES
    configs,    \* KubeConfigSet._configs: sequence of [path, raw] (KubeConfig.path, KubeConfig._raw)
    files,      \* files[i]: the text of the file at configs[i].path
    locks,      \* locks[i]: the task holding configs[i].__write_lock, 0 when free
    tasks,      \* tasks[t]: position of task t inside an awaited save / load
    history,    \* history[i]: how configs[i] was constructed and how often _raw was assigned from its file
    last        \* the call that completed last: its name, target, arguments and outcome

vars == <<configs, files, locks, tasks, history, last>>

(***************************************************************************)
(* Bounds of the model.                                                    *)
(***************************************************************************)
NumConfigs == 2     \* members of the set
MaxLen == 2         \* entries of a member's contexts list
NumTasks == 2       \* concurrent tasks
MaxCalls == 2       \* calls made in one behaviour
MaxConcCalls == 1   \* calls made between the steps of the concurrent tasks
MaxAssigned == 2    \* history counts assignments of _raw up to this many

Ids == 1..NumConfigs
TaskIds == 1..NumTasks

Names == {"a", "b"}             \* context names
Namespaces == {"n1"}            \* namespaces used as arguments
NoNamespace == "<absent>"       \* a context spec without a "namespace" key
NoArg == ""                     \* an omitted (None) or empty string argument

Falsy(s) == s = ""

SeqsUpTo(S, n) == UNION {[1..k -> S] : k \in 0..n}

(***************************************************************************)
(* Documents.  _raw is None or a dict; None is the record NoneRaw.         *)
(***************************************************************************)
NoneRaw == [isNone |-> TRUE]

Truthy(raw) == ~raw.isNone

PathOf(i) == "kubeconfig-" \o ToString(i)

NamesOf(list) == {list[k].name : k \in 1..Len(list)}

(***************************************************************************)
(* The YAML codec as the code uses it: safe_dump of a value gives a text   *)
(* that safe_load parses back to the value; the text of a file just opened *)
(* for writing is empty, and an empty text loads as None.                  *)
(***************************************************************************)
EmptyText == [text |-> "empty"]

yaml_safe_dump(value) == [text |-> "yaml", data |-> value]

yaml_safe_load(t) == IF t.text = "empty" THEN NoneRaw ELSE t.data

(***************************************************************************)
(* kr8s._data_utils: list of {key: k, value: v} <-> insertion-ordered dict.*)
(* A dict is a sequence of <<k, v>> with distinct keys, in insertion order.*)
(***************************************************************************)
DictKeys(d) == {d[k][1] : k \in 1..Len(d)}

DictPut(d, k, v) ==
    IF k \in DictKeys(d)
    THEN [j \in 1..Len(d) |-> IF d[j][1] = k THEN <<k, v>> ELSE d[j]]
    ELSE Append(d, <<k, v>>)

RECURSIVE list_dict_unpack(_, _, _)
list_dict_unpack(list, key, value) ==
    IF list = <<>> THEN <<>>
    ELSE LET n == Len(list)
             e == list[n]
         IN DictPut(list_dict_unpack(SubSeq(list, 1, n - 1), key, value), e[key], e[value])

dict_list_pack(d, key, value) ==
    [j \in 1..Len(d) |-> [f \in {key, value} |-> IF f = key THEN d[j][1] ELSE d[j][2]]]

(***************************************************************************)
(* KubeConfigSet read projections.  Each raises TypeError when a member it *)
(* reads has _raw None; callers test AllLoaded / Truthy first.             *)
(***************************************************************************)
AllLoaded(cfgs) == \A i \in 1..Len(cfgs) : Truthy(cfgs[i].raw)

(* The members' lists concatenated last member first. *)
RECURSIVE ConcatReversed(_, _, _)
ConcatReversed(cfgs, field, n) ==
    IF n = 0 THEN <<>> ELSE cfgs[n].raw[field] \o ConcatReversed(cfgs, field, n - 1)

RECURSIVE Concat(_, _, _)
Concat(cfgs, field, n) ==
    IF n = 0 THEN <<>> ELSE Concat(cfgs, field, n - 1) \o cfgs[n].raw[field]

(* A merged cluster list that keeps the duplicates of the concatenation. *)
KubeConfigSet_clusters_concatenated(cfgs) == Concat(cfgs, "clusters", Len(cfgs))

KubeConfigSet_clusters(cfgs) ==
    dict_list_pack(list_dict_unpack(Concat(cfgs, "clusters", Len(cfgs)), "name", "cluster"),
                   "name", "cluster")

KubeConfigSet_users(cfgs) ==
    dict_list_pack(list_dict_unpack(Concat(cfgs, "users", Len(cfgs)), "name", "user"),
                   "name", "user")

KubeConfigSet_contexts(cfgs) ==
    dict_list_pack(list_dict_unpack(Concat(cfgs, "contexts", Len(cfgs)), "name", "context"),
                   "name", "context")

KubeConfig_current_context(c) == c.raw.cc

(* The current context taken from the last member. *)
KubeConfigSet_current_context_last(cfgs) == KubeConfig_current_context(cfgs[Len(cfgs)])

KubeConfigSet_current_context(cfgs) == KubeConfig_current_context(cfgs[1])

KubeConfigSet_preferences(cfgs) == cfgs[1].raw.preferences

KubeConfigSet_extensions(cfgs) == Concat(cfgs, "extensions", Len(cfgs))

(* The merged document; the key "current-context" is the field cc. *)
KubeConfigSet_raw(cfgs) ==
    IF KubeConfigSet_extensions(cfgs) # <<>>
    THEN [apiVersion |-> "v1", kind |-> "Config",
          preferences |-> KubeConfigSet_preferences(cfgs),
          clusters |-> KubeConfigSet_clusters(cfgs),
          users |-> KubeConfigSet_users(cfgs),
          contexts |-> KubeConfigSet_contexts(cfgs),
          cc |-> KubeConfigSet_current_context(cfgs),
          extensions |-> KubeConfigSet_extensions(cfgs)]
    ELSE [apiVersion |-> "v1", kind |-> "Config",
          preferences |-> KubeConfigSet_preferences(cfgs),
          clusters |-> KubeConfigSet_clusters(cfgs),
          users |-> KubeConfigSet_users(cfgs),
          contexts |-> KubeConfigSet_contexts(cfgs),
          cc |-> KubeConfigSet_current_context(cfgs)]

(***************************************************************************)
(* The outcome of a call: the members and files it leaves, how it ended    *)
(* ("ok", "NotFound" for ValueError, "TypeError" for a subscript of None), *)
(* the value returned and the members save() was called on, in order.      *)
(***************************************************************************)
Outcome(cfgs, fls, result, value, saved) ==
    [configs |-> cfgs, files |-> fls, result |-> result, value |-> value, saved |-> saved]

Raise(cfgs, fls, error, saved) == Outcome(cfgs, fls, error, <<>>, saved)

(***************************************************************************)
(* KubeConfig.save run to completion with no other task in between: the    *)
(* file is written only when _raw is falsy.                                *)
(***************************************************************************)
KubeConfig_save(cfgs, fls, i) ==
    IF ~Truthy(cfgs[i].raw)
    THEN [fls EXCEPT ![i] = yaml_safe_dump(cfgs[i].raw)]
    ELSE fls

(* KubeConfig.__await__ run to completion with no other task in between. *)
KubeConfig_await(cfgs, fls, i) ==
    IF ~Truthy(cfgs[i].raw)
    THEN [cfgs EXCEPT ![i].raw = yaml_safe_load(fls[i])]
    ELSE cfgs

(* The record of an assignment of configs[i]._raw from the file. *)
Assigned(hist, cfgs, i) ==
    [hist EXCEPT ![i].assigned = IF @ < MaxAssigned THEN @ + 1 ELSE @,
                 ![i].overwritten = @ \/ Truthy(cfgs[i].raw)]

RECURSIVE AssignedAll(_, _, _, _)
AssignedAll(hist, cfgs, fls, n) ==
    IF n = 0 THEN hist
    ELSE LET h == AssignedAll(hist, cfgs, fls, n - 1)
         IN IF ~Truthy(cfgs[n].raw) THEN Assigned(h, cfgs, n) ELSE h

KubeConfig_use_context(cfgs, fls, i, context, allow_unknown) ==
    IF ~Truthy(cfgs[i].raw) THEN Raise(cfgs, fls, "TypeError", <<>>)
    ELSE IF ~allow_unknown /\ context \notin NamesOf(cfgs[i].raw.contexts)
    THEN Raise(cfgs, fls, "NotFound", <<>>)
    ELSE LET c2 == [cfgs EXCEPT ![i].raw.cc = context]
         IN Outcome(c2, KubeConfig_save(c2, fls, i), "ok", <<>>, <<i>>)

FirstNamed(list, name) ==
    IF name \in NamesOf(list)
    THEN CHOOSE k \in 1..Len(list) :
            /\ list[k].name = name
            /\ \A j \in 1..(k - 1) : list[j].name # name
    ELSE 0

(* A rename that leaves current-context alone. *)
KubeConfig_rename_context_only(cfgs, fls, i, old, new) ==
    IF ~Truthy(cfgs[i].raw) THEN Raise(cfgs, fls, "TypeError", <<>>)
    ELSE LET k == FirstNamed(cfgs[i].raw.contexts, old) IN
    IF k = 0 THEN Raise(cfgs, fls, "NotFound", <<>>)
    ELSE LET c1 == [cfgs EXCEPT ![i].raw.contexts[k].name = new]
         IN Outcome(c1, KubeConfig_save(c1, fls, i), "ok", <<>>, <<i>>)

(* A rename that finds the entry and leaves its name as it is. *)
KubeConfig_rename_context_unchanged(cfgs, fls, i, old, new) ==
    IF ~Truthy(cfgs[i].raw) THEN Raise(cfgs, fls, "TypeError", <<>>)
    ELSE IF FirstNamed(cfgs[i].raw.contexts, old) = 0 THEN Raise(cfgs, fls, "NotFound", <<>>)
    ELSE Outcome(cfgs, KubeConfig_save(cfgs, fls, i), "ok", <<>>, <<i>>)

KubeConfig_rename_context(cfgs, fls, i, old, new) ==
    IF ~Truthy(cfgs[i].raw) THEN Raise(cfgs, fls, "TypeError", <<>>)
    ELSE LET k == FirstNamed(cfgs[i].raw.contexts, old) IN
    IF k = 0 THEN Raise(cfgs, fls, "NotFound", <<>>)
    ELSE LET c1 == [cfgs EXCEPT ![i].raw.contexts[k].name = new]
             u == IF KubeConfig_current_context(c1[i]) = old
                  THEN KubeConfig_use_context(c1, fls, i, new, FALSE)
                  ELSE Outcome(c1, fls, "ok", <<>>, <<>>)
         IN IF u.result # "ok" THEN u
            ELSE Outcome(u.configs, KubeConfig_save(u.configs, u.files, i), "ok", <<>>,
                         Append(u.saved, i))

SetNamespace(list, name, namespace) ==
    [k \in 1..Len(list) |->
        IF list[k].name = name
        THEN [list[k] EXCEPT !.context.namespace = namespace]
        ELSE list[k]]

(* A use_namespace that insists on the current context being defined. *)
KubeConfig_use_namespace_strict(cfgs, fls, i, namespace) ==
    IF ~Truthy(cfgs[i].raw) THEN Raise(cfgs, fls, "TypeError", <<>>)
    ELSE IF KubeConfig_current_context(cfgs[i]) \notin NamesOf(cfgs[i].raw.contexts)
    THEN Raise(cfgs, fls, "NotFound", <<>>)
    ELSE LET c2 == [cfgs EXCEPT ![i].raw.contexts =
                        SetNamespace(@, KubeConfig_current_context(cfgs[i]), namespace)]
         IN Outcome(c2, KubeConfig_save(c2, fls, i), "ok", <<>>, <<i>>)

KubeConfig_use_namespace(cfgs, fls, i, namespace) ==
    IF ~Truthy(cfgs[i].raw) THEN Raise(cfgs, fls, "TypeError", <<>>)
    ELSE LET c2 == [cfgs EXCEPT ![i].raw.contexts =
                        SetNamespace(@, KubeConfig_current_context(cfgs[i]), namespace)]
         IN Outcome(c2, KubeConfig_save(c2, fls, i), "ok", <<>>, <<i>>)

(***************************************************************************)
(* KubeConfigSet operations.                                               *)
(***************************************************************************)
RECURSIVE SaveAll(_, _, _)
SaveAll(cfgs, fls, n) ==
    IF n = 0 THEN fls ELSE KubeConfig_save(cfgs, SaveAll(cfgs, fls, n - 1), n)

KubeConfigSet_save(cfgs, fls) ==
    Outcome(cfgs, SaveAll(cfgs, fls, Len(cfgs)), "ok", <<>>, [i \in 1..Len(cfgs) |-> i])

RECURSIVE AwaitAll(_, _, _)
AwaitAll(cfgs, fls, n) ==
    IF n = 0 THEN cfgs ELSE KubeConfig_await(AwaitAll(cfgs, fls, n - 1), fls, n)

KubeConfigSet_await(cfgs, fls) ==
    Outcome(AwaitAll(cfgs, fls, Len(cfgs)), fls, "ok", <<>>, <<>>)

(* A path lookup that always answers the first member's path. *)
PathScanFirst(cfgs, context, i) == <<"ok", cfgs[1].path>>

RECURSIVE PathScan(_, _, _)
PathScan(cfgs, context, i) ==
    IF i > Len(cfgs) THEN <<"ok", cfgs[1].path>>
    ELSE IF ~Truthy(cfgs[i].raw) THEN <<"TypeError">>
    ELSE IF context \in NamesOf(cfgs[i].raw.contexts) THEN <<"ok", cfgs[i].path>>
    ELSE PathScan(cfgs, context, i + 1)

KubeConfigSet_get_path(cfgs, fls, context) ==
    IF Falsy(context) /\ ~Truthy(cfgs[1].raw) THEN Raise(cfgs, fls, "TypeError", <<>>)
    ELSE LET ctx == IF Falsy(context) THEN KubeConfigSet_current_context(cfgs) ELSE context
             r == IF ~Falsy(ctx) THEN PathScan(cfgs, ctx, 1) ELSE <<"ok", cfgs[1].path>>
         IN IF r[1] = "ok" THEN Outcome(cfgs, fls, "ok", <<r[2]>>, <<>>)
            ELSE Raise(cfgs, fls, r[1], <<>>)

(* A use_context that sets the first member before it validates the name. *)
KubeConfigSet_use_context_unchecked(cfgs, fls, context) ==
    IF ~AllLoaded(cfgs) THEN Raise(cfgs, fls, "TypeError", <<>>)
    ELSE LET r == KubeConfig_use_context(cfgs, fls, 1, context, TRUE)
         IN IF context \notin NamesOf(KubeConfigSet_contexts(cfgs))
            THEN Raise(r.configs, r.files, "NotFound", r.saved)
            ELSE r

(* A use_context that delegates to the last member. *)
KubeConfigSet_use_context_last(cfgs, fls, context) ==
    IF ~AllLoaded(cfgs) THEN Raise(cfgs, fls, "TypeError", <<>>)
    ELSE IF context \notin NamesOf(KubeConfigSet_contexts(cfgs))
    THEN Raise(cfgs, fls, "NotFound", <<>>)
    ELSE KubeConfig_use_context(cfgs, fls, Len(cfgs), context, TRUE)

(* A use_context that accepts any name. *)
KubeConfigSet_use_context_any(cfgs, fls, context) ==
    IF ~AllLoaded(cfgs) THEN Raise(cfgs, fls, "TypeError", <<>>)
    ELSE KubeConfig_use_context(cfgs, fls, 1, context, TRUE)

KubeConfigSet_use_context(cfgs, fls, context) ==
    IF ~AllLoaded(cfgs) THEN Raise(cfgs, fls, "TypeError", <<>>)
    ELSE IF context \notin NamesOf(KubeConfigSet_contexts(cfgs))
    THEN Raise(cfgs, fls, "NotFound", <<>>)
    ELSE KubeConfig_use_context(cfgs, fls, 1, context, TRUE)

RECURSIVE RenameScan(_, _, _, _, _)
RenameScan(cfgs, fls, i, old, new) ==
    IF i > Len(cfgs) THEN Raise(cfgs, fls, "NotFound", <<>>)
    ELSE IF ~Truthy(cfgs[i].raw) THEN Raise(cfgs, fls, "TypeError", <<>>)
    ELSE IF old \in NamesOf(cfgs[i].raw.contexts)
    THEN LET r == KubeConfig_rename_context(cfgs, fls, i, old, new) IN
         IF r.result # "ok" THEN r
         ELSE IF KubeConfigSet_current_context(r.configs) = old
         THEN LET u == KubeConfigSet_use_context(r.configs, r.files, new)
              IN [u EXCEPT !.saved = r.saved \o @]
         ELSE r
    ELSE RenameScan(cfgs, fls, i + 1, old, new)

(* A rename that goes on to the members after the first that defines old. *)
RECURSIVE RenameEvery(_, _, _, _, _, _)
RenameEvery(cfgs, fls, i, old, new, found) ==
    IF i > Len(cfgs)
    THEN (IF found THEN Outcome(cfgs, fls, "ok", <<>>, <<>>)
          ELSE Raise(cfgs, fls, "NotFound", <<>>))
    ELSE IF ~Truthy(cfgs[i].raw) THEN Raise(cfgs, fls, "TypeError", <<>>)
    ELSE IF old \in NamesOf(cfgs[i].raw.contexts)
    THEN LET r == KubeConfig_rename_context(cfgs, fls, i, old, new)
         IN RenameEvery(r.configs, r.files, i + 1, old, new, TRUE)
    ELSE RenameEvery(cfgs, fls, i + 1, old, new, found)

KubeConfigSet_rename_context_every(cfgs, fls, old, new) ==
    RenameEvery(cfgs, fls, 1, old, new, FALSE)

(* A set rename that renames in the first defining member and stops there. *)
RECURSIVE RenameScanLocal(_, _, _, _, _)
RenameScanLocal(cfgs, fls, i, old, new) ==
    IF i > Len(cfgs) THEN Raise(cfgs, fls, "NotFound", <<>>)
    ELSE IF ~Truthy(cfgs[i].raw) THEN Raise(cfgs, fls, "TypeError", <<>>)
    ELSE IF old \in NamesOf(cfgs[i].raw.contexts)
    THEN KubeConfig_rename_context(cfgs, fls, i, old, new)
    ELSE RenameScanLocal(cfgs, fls, i + 1, old, new)

KubeConfigSet_rename_context_local(cfgs, fls, old, new) ==
    RenameScanLocal(cfgs, fls, 1, old, new)

KubeConfigSet_rename_context(cfgs, fls, old, new) == RenameScan(cfgs, fls, 1, old, new)

RECURSIVE NamespaceLoop(_, _, _, _, _)
NamespaceLoop(cfgs, fls, i, namespace, saved) ==
    IF i > Len(cfgs) THEN Outcome(cfgs, fls, "ok", <<>>, saved)
    ELSE IF ~Truthy(cfgs[i].raw) THEN Raise(cfgs, fls, "TypeError", saved)
    ELSE LET c2 == [cfgs EXCEPT ![i].raw.contexts =
                        SetNamespace(@, KubeConfigSet_current_context(cfgs), namespace)]
         IN NamespaceLoop(c2, KubeConfig_save(c2, fls, i), i + 1, namespace, Append(saved, i))

(* A use_namespace that delegates to the first member alone. *)
KubeConfigSet_use_namespace_first(cfgs, fls, namespace) ==
    IF ~AllLoaded(cfgs) THEN Raise(cfgs, fls, "TypeError", <<>>)
    ELSE KubeConfig_use_namespace(cfgs, fls, 1, namespace)

KubeConfigSet_use_namespace(cfgs, fls, namespace) ==
    NamespaceLoop(cfgs, fls, 1, namespace, <<>>)

(***************************************************************************)
(* Lookups by name and the namespace of the current context.               *)
(***************************************************************************)
Lookup(list, name, value) ==
    LET k == FirstNamed(list, name)
    IN IF k = 0 THEN <<"NotFound">> ELSE <<"ok", list[k][value]>>

Found(cfgs, fls, r) ==
    IF r[1] = "ok" THEN Outcome(cfgs, fls, "ok", <<r[2]>>, <<>>)
    ELSE Raise(cfgs, fls, r[1], <<>>)

KubeConfig_get_context(cfgs, fls, i, context_name) ==
    IF ~Truthy(cfgs[i].raw) THEN Raise(cfgs, fls, "TypeError", <<>>)
    ELSE Found(cfgs, fls, Lookup(cfgs[i].raw.contexts, context_name, "context"))

KubeConfig_get_cluster(cfgs, fls, i, cluster_name) ==
    IF ~Truthy(cfgs[i].raw) THEN Raise(cfgs, fls, "TypeError", <<>>)
    ELSE Found(cfgs, fls, Lookup(cfgs[i].raw.clusters, cluster_name, "cluster"))

KubeConfig_get_user(cfgs, fls, i, user_name) ==
    IF ~Truthy(cfgs[i].raw) THEN Raise(cfgs, fls, "TypeError", <<>>)
    ELSE Found(cfgs, fls, Lookup(cfgs[i].raw.users, user_name, "user"))

(* A set lookup that scans the concatenation of the members' lists. *)
KubeConfigSet_get_context_unmerged(cfgs, fls, context_name) ==
    IF ~AllLoaded(cfgs) THEN Raise(cfgs, fls, "TypeError", <<>>)
    ELSE Found(cfgs, fls, Lookup(Concat(cfgs, "contexts", Len(cfgs)), context_name, "context"))

KubeConfigSet_get_context(cfgs, fls, context_name) ==
    IF ~AllLoaded(cfgs) THEN Raise(cfgs, fls, "TypeError", <<>>)
    ELSE Found(cfgs, fls, Lookup(KubeConfigSet_contexts(cfgs), context_name, "context"))

KubeConfigSet_get_cluster(cfgs, fls, cluster_name) ==
    IF ~AllLoaded(cfgs) THEN Raise(cfgs, fls, "TypeError", <<>>)
    ELSE Found(cfgs, fls, Lookup(KubeConfigSet_clusters(cfgs), cluster_name, "cluster"))

KubeConfigSet_get_user(cfgs, fls, user_name) ==
    IF ~AllLoaded(cfgs) THEN Raise(cfgs, fls, "TypeError", <<>>)
    ELSE Found(cfgs, fls, Lookup(KubeConfigSet_users(cfgs), user_name, "user"))

(* context.get("namespace", "default") *)
GetNamespace(context) ==
    IF context.namespace = NoNamespace THEN "default" ELSE context.namespace

KubeConfig_current_namespace(cfgs, fls, i) ==
    IF ~Truthy(cfgs[i].raw) THEN Raise(cfgs, fls, "TypeError", <<>>)
    ELSE LET g == KubeConfig_get_context(cfgs, fls, i, KubeConfig_current_context(cfgs[i]))
         IN IF g.result # "ok" THEN g
            ELSE Outcome(cfgs, fls, "ok", <<GetNamespace(g.value[1])>>, <<>>)

(* A current_namespace that reads the first member's own context list. *)
KubeConfigSet_current_namespace_first(cfgs, fls) ==
    IF ~AllLoaded(cfgs) THEN Raise(cfgs, fls, "TypeError", <<>>)
    ELSE KubeConfig_current_namespace(cfgs, fls, 1)

KubeConfigSet_current_namespace(cfgs, fls) ==
    IF ~Truthy(cfgs[1].raw) THEN Raise(cfgs, fls, "TypeError", <<>>)
    ELSE LET g == KubeConfigSet_get_context(cfgs, fls, KubeConfigSet_current_context(cfgs))
         IN IF g.result # "ok" THEN g
            ELSE Outcome(cfgs, fls, "ok", <<GetNamespace(g.value[1])>>, <<>>)

(***************************************************************************)
(* Initial documents.  A member constructed with content holds the         *)
(* document of its file; one constructed without holds None.               *)
(***************************************************************************)
ContextSpec(i, k) ==
    [cluster |-> "k" \o ToString(i), user |-> "u" \o ToString(k), namespace |-> NoNamespace]

InitContexts(i, names) ==
    [k \in 1..Len(names) |-> [name |-> names[k], context |-> ContextSpec(i, k)]]

InitClusters(i) ==
    << [name |-> "k1", cluster |-> [server |-> "s" \o ToString(i)]],
       [name |-> "k" \o ToString(i + 1), cluster |-> [server |-> "s" \o ToString(i)]] >>

InitUsers(i) ==
    << [name |-> "u1", user |-> [token |-> "t" \o ToString(i)]] >>

Doc(i, cc, contexts) ==
    [isNone |-> FALSE, cc |-> cc, contexts |-> contexts,
     clusters |-> InitClusters(i), users |-> InitUsers(i),
     preferences |-> [colors |-> (i = 1)],
     extensions |-> IF i = 1 THEN <<>> ELSE <<[name |-> "e" \o ToString(i)]>>]

InitDocs(i) ==
    {Doc(i, cc, InitContexts(i, names)) : cc \in {"a", ""}, names \in SeqsUpTo(Names, MaxLen)}

NoCall == [op |-> "init", target |-> 0, args |-> <<>>, result |-> "ok",
           value |-> <<>>, saved |-> <<>>, n |-> 0]

Idle == [pc |-> "idle", op |-> "none", i |-> 0, buf |-> EmptyText]

InitWith(docs, loaded) ==
    /\ configs = [i \in Ids |-> [path |-> PathOf(i),
                                 raw |-> IF loaded[i] THEN docs[i] ELSE NoneRaw]]
    /\ files = [i \in Ids |-> yaml_safe_dump(docs[i])]
    /\ locks = [i \in Ids |-> 0]
    /\ tasks = [t \in TaskIds |-> Idle]
    /\ history = [i \in Ids |-> [supplied |-> loaded[i], assigned |-> 0, overwritten |-> FALSE]]
    /\ last = NoCall

Init ==
    \E docs \in [Ids -> UNION {InitDocs(i) : i \in Ids}], loaded \in [Ids -> BOOLEAN] :
        /\ \A i \in Ids : docs[i] \in InitDocs(i)
        /\ InitWith(docs, loaded)

(***************************************************************************)
(* Calls made one at a time, each awaited to completion.                   *)
(***************************************************************************)
Called(op, target, args, o) ==
    [op |-> op, target |-> target, args |-> args, result |-> o.result,
     value |-> o.value, saved |-> o.saved, n |-> last.n + 1]

Return(op, target, args, o) ==
    /\ last.n < MaxCalls
    /\ configs' = o.configs
    /\ files' = o.files
    /\ last' = Called(op, target, args, o)
    /\ UNCHANGED <<locks, tasks>>

Await(i) ==
    /\ Return("await", i, <<>>,
              Outcome(KubeConfig_await(configs, files, i), files, "ok", <<>>, <<>>))
    /\ history' = IF ~Truthy(configs[i].raw) THEN Assigned(history, configs, i) ELSE history

Save(i) ==
    /\ Return("save", i, <<>>,
              Outcome(configs, KubeConfig_save(configs, files, i), "ok", <<>>, <<i>>))
    /\ UNCHANGED history

UseContext(i, context, allow_unknown) ==
    /\ Return("use_context", i, <<context, allow_unknown>>,
              KubeConfig_use_context(configs, files, i, context, allow_unknown))
    /\ UNCHANGED history

RenameContext(i, old, new) ==
    /\ Return("rename_context", i, <<old, new>>,
              KubeConfig_rename_context(configs, files, i, old, new))
    /\ UNCHANGED history

UseNamespace(i, namespace) ==
    /\ Return("use_namespace", i, <<namespace>>,
              KubeConfig_use_namespace(configs, files, i, namespace))
    /\ UNCHANGED history

SetAwait ==
    /\ Return("await", 0, <<>>, KubeConfigSet_await(configs, files))
    /\ history' = AssignedAll(history, configs, files, Len(configs))

SetSave ==
    /\ Return("save", 0, <<>>, KubeConfigSet_save(configs, files))
    /\ UNCHANGED history

SetGetPath(context) ==
    /\ Return("get_path", 0, <<context>>, KubeConfigSet_get_path(configs, files, context))
    /\ UNCHANGED history

SetUseContext(context) ==
    /\ Return("use_context", 0, <<context>>,
              KubeConfigSet_use_context(configs, files, context))
    /\ UNCHANGED history

SetRenameContext(old, new) ==
    /\ Return("rename_context", 0, <<old, new>>,
              KubeConfigSet_rename_context(configs, files, old, new))
    /\ UNCHANGED history

SetUseNamespace(namespace) ==
    /\ Return("use_namespace", 0, <<namespace>>,
              KubeConfigSet_use_namespace(configs, files, namespace))
    /\ UNCHANGED history

SetCurrentContext ==
    /\ Return("current_context", 0, <<>>,
              IF ~Truthy(configs[1].raw) THEN Raise(configs, files, "TypeError", <<>>)
              ELSE Outcome(configs, files, "ok", <<KubeConfigSet_current_context(configs)>>, <<>>))
    /\ UNCHANGED history

SetRaw ==
    /\ Return("raw", 0, <<>>,
              IF ~AllLoaded(configs) THEN Raise(configs, files, "TypeError", <<>>)
              ELSE Outcome(configs, files, "ok", <<KubeConfigSet_raw(configs)>>, <<>>))
    /\ UNCHANGED history

CurrentNamespace(i) ==
    /\ Return("current_namespace", i, <<>>, KubeConfig_current_namespace(configs, files, i))
    /\ UNCHANGED history

SetCurrentNamespace ==
    /\ Return("current_namespace", 0, <<>>, KubeConfigSet_current_namespace(configs, files))
    /\ UNCHANGED history

(* A name that no initial document defines. *)
FreshName == "c"

Mutators ==
    \/ \E i \in Ids, context \in Names, allow_unknown \in BOOLEAN :
            UseContext(i, context, allow_unknown)
    \/ \E i \in Ids, old \in Names, new \in Names : RenameContext(i, old, new)
    \/ \E i \in Ids, namespace \in Namespaces : UseNamespace(i, namespace)
    \/ \E context \in Names : SetUseContext(context)
    \/ \E old \in Names, new \in Names \cup {FreshName} : SetRenameContext(old, new)
    \/ \E namespace \in Namespaces : SetUseNamespace(namespace)

Next ==
    \/ \E i \in Ids : Await(i)
    \/ \E i \in Ids : Save(i)
    \/ SetAwait
    \/ SetSave
    \/ \E context \in Names \cup {NoArg} : SetGetPath(context)
    \/ SetCurrentContext
    \/ SetRaw
    \/ \E i \in Ids : CurrentNamespace(i)
    \/ SetCurrentNamespace
    \/ Mutators

Spec == Init /\ [][Next]_vars

(***************************************************************************)
(* Concurrent tasks.  A task runs KubeConfig.save, KubeConfig.__await__,   *)
(* KubeConfigSet.save or KubeConfigSet.__await__ one atomic segment at a   *)
(* time; a segment ends where the coroutine suspends (the lock checkpoint, *)
(* open_file, read, write, aclose).  The other calls never suspend: save   *)
(* returns at once when _raw is present and they raise before reaching it  *)
(* when _raw is None.                                                      *)
(***************************************************************************)
RECURSIVE NextFalsy(_, _)
NextFalsy(cfgs, i) ==
    IF i > Len(cfgs) THEN 0
    ELSE IF ~Truthy(cfgs[i].raw) THEN i
    ELSE NextFalsy(cfgs, i + 1)

(* A lock that never makes a task wait. *)
LockFreeAlways(lks, i) == TRUE

(* anyio.Lock: acquire_nowait succeeds when no task owns the lock. *)
LockFree(lks, i) == lks[i] = 0

Finished(t) ==
    /\ tasks' = [tasks EXCEPT ![t] = Idle]
    /\ UNCHANGED last

(* Task t enters save() of member i (op "save"), or of the members from i on
   (op "set_save"): the guard, then the lock. *)
EnterSave(t, op, i) ==
    LET j == IF op = "save"
             THEN (IF ~Truthy(configs[i].raw) THEN i ELSE 0)
             ELSE NextFalsy(configs, i)
    IN IF j = 0
       THEN /\ Finished(t)
            /\ UNCHANGED locks
       ELSE IF LockFree(locks, j)
       THEN /\ tasks' = [tasks EXCEPT ![t] = [pc |-> "locked", op |-> op, i |-> j, buf |-> EmptyText]]
            /\ locks' = [locks EXCEPT ![j] = t]
            /\ UNCHANGED last
       ELSE /\ tasks' = [tasks EXCEPT ![t] = [pc |-> "wait_lock", op |-> op, i |-> j, buf |-> EmptyText]]
            /\ UNCHANGED <<locks, last>>

StartSave(t, i) ==
    /\ tasks[t].pc = "idle"
    /\ EnterSave(t, "save", i)
    /\ UNCHANGED <<configs, files, history>>

StartSetSave(t) ==
    /\ tasks[t].pc = "idle"
    /\ EnterSave(t, "set_save", 1)
    /\ UNCHANGED <<configs, files, history>>

AcquireLock(t) ==
    /\ tasks[t].pc = "wait_lock"
    /\ LockFree(locks, tasks[t].i)
    /\ locks' = [locks EXCEPT ![tasks[t].i] = t]
    /\ tasks' = [tasks EXCEPT ![t].pc = "locked"]
    /\ UNCHANGED <<configs, files, history, last>>

OpenForWrite(t) ==
    /\ tasks[t].pc = "locked"
    /\ files' = [files EXCEPT ![tasks[t].i] = EmptyText]
    /\ tasks' = [tasks EXCEPT ![t].pc = "opened"]
    /\ UNCHANGED <<configs, locks, history, last>>

WriteDump(t) ==
    /\ tasks[t].pc = "opened"
    /\ tasks' = [tasks EXCEPT ![t].pc = "written",
                              ![t].buf = yaml_safe_dump(configs[tasks[t].i].raw)]
    /\ UNCHANGED <<configs, files, locks, history, last>>

CloseWrite(t) ==
    /\ tasks[t].pc = "written"
    /\ files' = [files EXCEPT ![tasks[t].i] = tasks[t].buf]
    /\ tasks' = [tasks EXCEPT ![t].pc = "closed"]
    /\ UNCHANGED <<configs, locks, history, last>>

ReleaseLock(t) ==
    /\ tasks[t].pc = "closed"
    /\ IF tasks[t].op = "save"
       THEN /\ Finished(t)
            /\ locks' = [locks EXCEPT ![tasks[t].i] = 0]
       ELSE LET j == NextFalsy(configs, tasks[t].i + 1) IN
            IF j = 0
            THEN /\ Finished(t)
                 /\ locks' = [locks EXCEPT ![tasks[t].i] = 0]
            ELSE IF LockFree(locks, j)
            THEN /\ tasks' = [tasks EXCEPT ![t] = [pc |-> "locked", op |-> "set_save",
                                                  i |-> j, buf |-> EmptyText]]
                 /\ locks' = [locks EXCEPT ![tasks[t].i] = 0, ![j] = t]
                 /\ UNCHANGED last
            ELSE /\ tasks' = [tasks EXCEPT ![t] = [pc |-> "wait_lock", op |-> "set_save",
                                                  i |-> j, buf |-> EmptyText]]
                 /\ locks' = [locks EXCEPT ![tasks[t].i] = 0]
                 /\ UNCHANGED last
    /\ UNCHANGED <<configs, files, history>>

(* Task t enters __await__ of member i (op "await"), or of the members from i
   on (op "set_await"): the guard, then open_file. *)
EnterAwait(t, op, i) ==
    LET j == IF op = "await"
             THEN (IF ~Truthy(configs[i].raw) THEN i ELSE 0)
             ELSE NextFalsy(configs, i)
    IN IF j = 0
       THEN Finished(t)
       ELSE /\ tasks' = [tasks EXCEPT ![t] = [pc |-> "reading", op |-> op, i |-> j, buf |-> EmptyText]]
            /\ UNCHANGED last

StartAwait(t, i) ==
    /\ tasks[t].pc = "idle"
    /\ EnterAwait(t, "await", i)
    /\ UNCHANGED <<configs, files, locks, history>>

StartSetAwait(t) ==
    /\ tasks[t].pc = "idle"
    /\ EnterAwait(t, "set_await", 1)
    /\ UNCHANGED <<configs, files, locks, history>>

ReadFile(t) ==
    /\ tasks[t].pc = "reading"
    /\ tasks' = [tasks EXCEPT ![t].pc = "read", ![t].buf = files[tasks[t].i]]
    /\ UNCHANGED <<configs, files, locks, history, last>>

AssignRaw(t) ==
    /\ tasks[t].pc = "read"
    /\ configs' = [configs EXCEPT ![tasks[t].i].raw = yaml_safe_load(tasks[t].buf)]
    /\ history' = Assigned(history, configs, tasks[t].i)
    /\ tasks' = [tasks EXCEPT ![t].pc = "closing"]
    /\ UNCHANGED <<files, locks, last>>

CloseRead(t) ==
    /\ tasks[t].pc = "closing"
    /\ IF tasks[t].op = "await"
       THEN Finished(t)
       ELSE EnterAwait(t, "set_await", tasks[t].i + 1)
    /\ UNCHANGED <<configs, files, locks, history>>

ConcDocs(i) == {Doc(i, "a", InitContexts(i, <<"a">>))}

InitConc ==
    \E docs \in [Ids -> UNION {ConcDocs(i) : i \in Ids}], loaded \in [Ids -> BOOLEAN] :
        /\ \A i \in Ids : docs[i] \in ConcDocs(i)
        /\ InitWith(docs, loaded)

NextConc ==
    \/ \E t \in TaskIds, i \in Ids : StartSave(t, i)
    \/ \E t \in TaskIds : StartSetSave(t)
    \/ \E t \in TaskIds : AcquireLock(t)
    \/ \E t \in TaskIds : OpenForWrite(t)
    \/ \E t \in TaskIds : WriteDump(t)
    \/ \E t \in TaskIds : CloseWrite(t)
    \/ \E t \in TaskIds : ReleaseLock(t)
    \/ \E t \in TaskIds, i \in Ids : StartAwait(t, i)
    \/ \E t \in TaskIds : StartSetAwait(t)
    \/ \E t \in TaskIds : ReadFile(t)
    \/ \E t \in TaskIds : AssignRaw(t)
    \/ \E t \in TaskIds : CloseRead(t)
    \/ \E i \in Ids : last.n < MaxConcCalls /\ UseContext(i, "b", TRUE)
    \/ last.n < MaxConcCalls /\ SetUseNamespace("n1")

SpecConc == InitConc /\ [][NextConc]_vars

(***************************************************************************)
(* The merged lists read on sets of documents drawn from bounded lists.    *)
(***************************************************************************)
MergeDoc(i, names) ==
    [isNone |-> FALSE, cc |-> "a",
     contexts |-> InitContexts(i, names),
     clusters |-> [k \in 1..Len(names) |->
                    [name |-> "k-" \o names[k],
                     cluster |-> [server |-> "s" \o ToString(i) \o "-" \o ToString(k)]]],
     users |-> [k \in 1..Len(names) |->
                    [name |-> "u-" \o names[k],
                     user |-> [token |-> "t" \o ToString(i) \o "-" \o ToString(k)]]],
     preferences |-> [colors |-> (i = 1)],
     extensions |-> <<>>]

(* Every member holds a document of its own, or the same document as the  *)
(* first member.                                                           *)
InitMerge ==
    \E names \in [Ids -> SeqsUpTo(Names, MaxLen)], same \in BOOLEAN :
        InitWith([i \in Ids |-> IF same THEN MergeDoc(1, names[1]) ELSE MergeDoc(i, names[i])],
                 [i \in Ids |-> TRUE])

Merged(field) ==
    IF ~AllLoaded(configs) THEN Raise(configs, files, "TypeError", <<>>)
    ELSE Outcome(configs, files, "ok",
                 << CASE field = "clusters" -> KubeConfigSet_clusters(configs)
                      [] field = "users" -> KubeConfigSet_users(configs)
                      [] field = "contexts" -> KubeConfigSet_contexts(configs) >>,
                 <<>>)

SetClusters == Return("clusters", 0, <<>>, Merged("clusters")) /\ UNCHANGED history

SetUsers == Return("users", 0, <<>>, Merged("users")) /\ UNCHANGED history

SetContexts == Return("contexts", 0, <<>>, Merged("contexts")) /\ UNCHANGED history

GetContext(i, context_name) ==
    /\ Return("get_context", i, <<context_name>>,
              KubeConfig_get_context(configs, files, i, context_name))
    /\ UNCHANGED history

GetCluster(i, cluster_name) ==
    /\ Return("get_cluster", i, <<cluster_name>>,
              KubeConfig_get_cluster(configs, files, i, cluster_name))
    /\ UNCHANGED history

GetUser(i, user_name) ==
    /\ Return("get_user", i, <<user_name>>,
              KubeConfig_get_user(configs, files, i, user_name))
    /\ UNCHANGED history

SetGetContext(context_name) ==
    /\ Return("get_context", 0, <<context_name>>,
              KubeConfigSet_get_context(configs, files, context_name))
    /\ UNCHANGED history

SetGetCluster(cluster_name) ==
    /\ Return("get_cluster", 0, <<cluster_name>>,
              KubeConfigSet_get_cluster(configs, files, cluster_name))
    /\ UNCHANGED history

SetGetUser(user_name) ==
    /\ Return("get_user", 0, <<user_name>>,
              KubeConfigSet_get_user(configs, files, user_name))
    /\ UNCHANGED history

ClusterNames == {"k-" \o n : n \in Names}

UserNames == {"u-" \o n : n \in Names}

NextMerge ==
    \/ SetClusters
    \/ SetUsers
    \/ SetContexts
    \/ \E i \in Ids, context_name \in Names : GetContext(i, context_name)
    \/ \E i \in Ids, cluster_name \in ClusterNames : GetCluster(i, cluster_name)
    \/ \E i \in Ids, user_name \in UserNames : GetUser(i, user_name)
    \/ \E context_name \in Names : SetGetContext(context_name)
    \/ \E cluster_name \in ClusterNames : SetGetCluster(cluster_name)
    \/ \E user_name \in UserNames : SetGetUser(user_name)

SpecMerge == InitMerge /\ [][NextMerge]_vars

(***************************************************************************)
(* Properties.                                                             *)
(***************************************************************************)
CallStep == last'.n = last.n + 1

Defines(cfgs, i, name) == Truthy(cfgs[i].raw) /\ name \in NamesOf(cfgs[i].raw.contexts)

FirstDefining(cfgs, name) ==
    CHOOSE i \in 1..Len(cfgs) :
        Defines(cfgs, i, name) /\ \A j \in 1..(i - 1) : ~Defines(cfgs, j, name)

\* C1: whenever save, use_context, use_namespace or rename_context returns
\* successfully on a KubeConfig whose content is present, the file at its path
\* holds the in-memory content.
C1_SavedFileHoldsContent ==
    \A i \in Ids :
        ( /\ last.op \in {"save", "use_context", "use_namespace", "rename_context"}
          /\ last.target = i
          /\ last.result = "ok"
          /\ Truthy(configs[i].raw) )
        => files[i] = yaml_safe_dump(configs[i].raw)

InWritePhase(t, i) ==
    tasks[t].i = i /\ tasks[t].pc \in {"locked", "opened", "written", "closed"}

\* C2: under any interleaving of saves and mutators, at most one task at a time
\* is in the write phase of save for a given KubeConfig.
C2_WriteMutex ==
    \A i \in Ids : \A t1 \in TaskIds, t2 \in TaskIds :
        (InWritePhase(t1, i) /\ InWritePhase(t2, i)) => t1 = t2

C2_Witness ==
    \E i \in Ids : \E t1 \in TaskIds, t2 \in TaskIds :
        /\ tasks[t1].i = i /\ tasks[t1].pc = "written"
        /\ tasks[t2].i = i /\ tasks[t2].pc = "wait_lock"

\* C3: _raw is assigned from the file at most once in the object's lifetime,
\* never when content was supplied at construction and never when content is
\* already present.
C3_AssignedAtMostOnce ==
    \A i \in Ids :
        /\ history[i].assigned <= 1
        /\ ~history[i].overwritten
        /\ history[i].supplied => history[i].assigned = 0

\* C4: the current context of the set, and the current-context of its raw
\* document, is the current-context of the first member, whatever the
\* current-context fields of the later members are.
C4_CurrentContextIsFirst ==
    /\ (last.op = "current_context" /\ last.result = "ok")
            => last.value = <<configs[1].raw.cc>>
    /\ (last.op = "raw" /\ last.result = "ok") => last.value[1].cc = configs[1].raw.cc
    /\ Truthy(configs[1].raw) =>
            \A i \in 2..Len(configs), name \in Names \cup {""} :
                Truthy(configs[i].raw) =>
                    KubeConfigSet_current_context([configs EXCEPT ![i].raw.cc = name])
                        = configs[1].raw.cc

C4_Witness ==
    /\ last.op = "raw" /\ last.result = "ok"
    /\ configs[2].raw.cc = "b"
    /\ last.value[1].cc = "a"

ValueKey(field) ==
    CASE field = "clusters" -> "cluster" [] field = "users" -> "user" [] field = "contexts" -> "context"

LastPosition(list, name) ==
    CHOOSE k \in 1..Len(list) :
        list[k].name = name /\ \A j \in (k + 1)..Len(list) : list[j].name # name

LastMemberWith(cfgs, field, name) ==
    CHOOSE i \in 1..Len(cfgs) :
        /\ name \in NamesOf(cfgs[i].raw[field])
        /\ \A j \in (i + 1)..Len(cfgs) : name \notin NamesOf(cfgs[j].raw[field])

\* C5: each of the merged clusters, users and contexts holds exactly one entry
\* per name defined in any member, and the value of the entry is the value from
\* the last member that defines the name.
C5_MergedLastWins ==
    (last.op \in {"clusters", "users", "contexts"} /\ last.result = "ok") =>
        LET field == last.op
            merged == last.value[1]
        IN /\ \A j \in 1..Len(merged), k \in 1..Len(merged) :
                    merged[j].name = merged[k].name => j = k
           /\ NamesOf(merged) = UNION {NamesOf(configs[i].raw[field]) : i \in Ids}
           /\ \A k \in 1..Len(merged) :
                LET list == configs[LastMemberWith(configs, field, merged[k].name)].raw[field]
                IN merged[k] = list[LastPosition(list, merged[k].name)]

C5_Witness ==
    /\ last.op = "clusters" /\ last.result = "ok"
    /\ Len(configs[1].raw.clusters) = 2 /\ Len(configs[2].raw.clusters) = 1
    /\ configs[1].raw.clusters[1].name = configs[2].raw.clusters[1].name
    /\ configs[1].raw.clusters[1] # configs[2].raw.clusters[1]
    /\ configs[1].raw.clusters[2].name # configs[1].raw.clusters[1].name
    /\ last.value[1] = <<configs[2].raw.clusters[1], configs[1].raw.clusters[2]>>

\* C6: get_path(context) returns the path of the first member whose contexts
\* define the context, taking the set's current context when no context is
\* given, and the first member's path when no member defines it.
C6_GetPathRoutes ==
    (last.op = "get_path" /\ last.result = "ok") =>
        LET context == IF Falsy(last.args[1]) THEN configs[1].raw.cc ELSE last.args[1]
        IN last.value =
             << IF \E i \in Ids : Defines(configs, i, context)
                THEN PathOf(FirstDefining(configs, context))
                ELSE PathOf(1) >>

C6_Witness ==
    /\ last.op = "get_path" /\ last.result = "ok" /\ last.args = <<NoArg>>
    /\ Defines(configs, 2, configs[1].raw.cc)
    /\ last.value = <<PathOf(2)>>

CurrentOf(cfgs, target) == IF target = 0 THEN cfgs[1].raw.cc ELSE cfgs[target].raw.cc

\* C7: a successful rename_context(old, new), on a KubeConfig or on the set,
\* leaves current_context equal to new when it was old before the call, and
\* unchanged otherwise.
C7_RenameKeepsCurrent ==
    [][ (CallStep /\ last'.op = "rename_context" /\ last'.result = "ok") =>
            IF CurrentOf(configs, last'.target) = last'.args[1]
            THEN CurrentOf(configs', last'.target) = last'.args[2]
            ELSE CurrentOf(configs', last'.target) = CurrentOf(configs, last'.target)
      ]_vars

C7_Witness ==
    /\ last.n = 1 /\ last.op = "rename_context" /\ last.result = "ok"
    /\ last.target = 0 /\ last.args = <<"a", "b">>
    /\ ~Defines(configs, 1, "b")
    /\ configs[1].raw.cc = "b"

\* C8: a use_context or rename_context that fails with NotFound, on a
\* KubeConfig or on the set, changes no member and no file and calls no save.
C8_NotFoundChangesNothing ==
    [][ (CallStep /\ last'.op \in {"use_context", "rename_context"}
                  /\ last'.result = "NotFound") =>
            (configs' = configs /\ files' = files /\ last'.saved = <<>>)
      ]_vars

C8_Witness ==
    /\ last.op = "use_context" /\ last.target = 0 /\ last.result = "NotFound"
    /\ last.args = <<"b">>
    /\ AllLoaded(configs)
    /\ configs[1].raw.cc = "a"
    /\ \E i \in Ids : Defines(configs, i, "a")

\* C9: a successful use_context(name) on the set leaves the set's current
\* context equal to name and changes nothing but the current-context field of
\* the first member.
C9_UseContextFrame ==
    [][ (CallStep /\ last'.op = "use_context" /\ last'.target = 0 /\ last'.result = "ok") =>
            /\ KubeConfigSet_current_context(configs') = last'.args[1]
            /\ configs' = [configs EXCEPT ![1].raw.cc = last'.args[1]]
      ]_vars

C9_Witness ==
    /\ last.n = 1 /\ last.op = "use_context" /\ last.target = 0 /\ last.result = "ok"
    /\ last.args = <<"b">>
    /\ ~Defines(configs, 1, "b") /\ Defines(configs, 2, "b")
    /\ configs[1].raw.cc = "b"

\* C10: a successful rename_context(old, new) on the set renames the first
\* entry named old of the first member that defines old and no other context
\* entry, and changes no cluster and no user of any member.
C10_RenameOnlyFirst ==
    [][ (CallStep /\ last'.op = "rename_context" /\ last'.target = 0 /\ last'.result = "ok") =>
            LET old == last'.args[1]
                new == last'.args[2]
                m == FirstDefining(configs, old)
                list == configs[m].raw.contexts
                k == CHOOSE p \in 1..Len(list) :
                        list[p].name = old /\ \A q \in 1..(p - 1) : list[q].name # old
            IN \A i \in Ids :
                IF ~Truthy(configs[i].raw) THEN configs'[i] = configs[i]
                ELSE /\ configs'[i].raw.contexts =
                            IF i = m THEN [list EXCEPT ![k].name = new]
                            ELSE configs[i].raw.contexts
                     /\ configs'[i].raw.clusters = configs[i].raw.clusters
                     /\ configs'[i].raw.users = configs[i].raw.users
      ]_vars

C10_Witness ==
    /\ last.n = 1 /\ last.op = "rename_context" /\ last.target = 0 /\ last.result = "ok"
    /\ last.args = <<"a", "b">>
    /\ AllLoaded(configs)
    /\ Len(configs[1].raw.contexts) = 2
    /\ configs[1].raw.contexts[1].name = "b" /\ configs[1].raw.contexts[2].name = "a"
    /\ Defines(configs, 2, "a")


EveryMember == [i \in 1..NumConfigs |-> i]

SameButContexts(c1, c2) ==
    /\ c1.path = c2.path
    /\ [c1.raw EXCEPT !.contexts = <<>>] = [c2.raw EXCEPT !.contexts = <<>>]
    /\ Len(c1.raw.contexts) = Len(c2.raw.contexts)

\* C11: after the set's use_namespace(ns) returns, in every member every
\* context entry named as the set's current context has namespace ns and is
\* otherwise as before, every other entry and field is unchanged, save was
\* invoked on every member in order, and when some member defines the current
\* context the set's current_namespace returns ns.
C11_SetUseNamespaceAllMembers ==
    [][ ( /\ CallStep
          /\ last'.op = "use_namespace" /\ last'.target = 0 /\ last'.result = "ok" )
        => LET cc == configs[1].raw.cc
               ns == last'.args[1]
           IN /\ \A i \in Ids :
                    /\ SameButContexts(configs[i], configs'[i])
                    /\ \A k \in 1..Len(configs[i].raw.contexts) :
                          LET e == configs[i].raw.contexts[k]
                              e2 == configs'[i].raw.contexts[k]
                          IN IF e.name = cc
                             THEN e2 = [e EXCEPT !.context.namespace = ns]
                             ELSE e2 = e
              /\ last'.saved = EveryMember
              /\ (\E i \in Ids : Defines(configs, i, cc))
                    => KubeConfigSet_current_namespace(configs', files').value = <<ns>>
      ]_vars

C11_Witness ==
    /\ last.n = 1
    /\ last.op = "use_namespace" /\ last.target = 0 /\ last.result = "ok"
    /\ last.args = <<"n1">>
    /\ configs[1].raw.cc = "a"
    /\ \A i \in Ids : Defines(configs, i, "a") /\ Defines(configs, i, "b")
    /\ \A i \in Ids : \A k \in 1..Len(configs[i].raw.contexts) :
          configs[i].raw.contexts[k].context.namespace =
              IF configs[i].raw.contexts[k].name = "a" THEN "n1" ELSE NoNamespace

\* C12: use_namespace on a KubeConfig, or on a KubeConfigSet, whose current
\* context is not defined by any context entry raises no error and changes no
\* content, and save is still invoked.
C12_UndefinedCurrentIsNoOp ==
    [][ ( /\ CallStep
          /\ last'.op = "use_namespace"
          /\ IF last'.target = 0
             THEN /\ AllLoaded(configs)
                  /\ \A i \in Ids : ~Defines(configs, i, configs[1].raw.cc)
             ELSE /\ Truthy(configs[last'.target].raw)
                  /\ ~Defines(configs, last'.target, configs[last'.target].raw.cc) )
        => /\ last'.result = "ok"
           /\ configs' = configs
           /\ last'.saved = IF last'.target = 0 THEN EveryMember ELSE <<last'.target>>
      ]_vars

C12_Witness ==
    /\ last.n = 1
    /\ last.op = "use_namespace" /\ last.target = 1 /\ last.result = "ok"
    /\ last.saved = <<1>>
    /\ configs[1].raw.cc = ""
    /\ Len(configs[1].raw.contexts) = MaxLen
    /\ \A k \in 1..Len(configs[1].raw.contexts) :
          configs[1].raw.contexts[k].context.namespace = NoNamespace

LookupField(op) ==
    CASE op = "get_context" -> "contexts"
      [] op = "get_cluster" -> "clusters"
      [] op = "get_user" -> "users"

\* C13: get_context, get_cluster and get_user fail with NotFound exactly when
\* the name is in no entry of the list (the member's own list, or any member's
\* list for a set); otherwise they return the value of an entry of that name,
\* which for a set is the one of the last member that defines it.
C13_LookupByName ==
    (last.op \in {"get_context", "get_cluster", "get_user"}) =>
        LET field == LookupField(last.op)
            name == last.args[1]
            members == IF last.target = 0 THEN Ids ELSE {last.target}
            defining == {i \in members : name \in NamesOf(configs[i].raw[field])}
        IN /\ last.result \in {"ok", "NotFound"}
           /\ (last.result = "NotFound") <=> (defining = {})
           /\ (last.result = "ok" /\ last.target # 0) =>
                \E k \in 1..Len(configs[last.target].raw[field]) :
                    /\ configs[last.target].raw[field][k].name = name
                    /\ last.value = <<configs[last.target].raw[field][k][ValueKey(field)]>>
           /\ (last.result = "ok" /\ last.target = 0) =>
                LET list == configs[LastMemberWith(configs, field, name)].raw[field]
                IN last.value = <<list[LastPosition(list, name)][ValueKey(field)]>>

C13_Witness ==
    /\ last.op = "get_context" /\ last.target = 0 /\ last.result = "ok"
    /\ last.args = <<"a">>
    /\ \A i \in Ids : "a" \in NamesOf(configs[i].raw.contexts)
    /\ configs[1].raw.contexts[1].name = "a"
    /\ configs[NumConfigs].raw.contexts[1].name = "a"
    /\ configs[1].raw.contexts[1].context # configs[NumConfigs].raw.contexts[1].context
    /\ last.value = <<configs[NumConfigs].raw.contexts[1].context>>
    /\ Len(configs[NumConfigs].raw.contexts) = 1

UniqueNames(list) ==
    \A j \in 1..Len(list), k \in 1..Len(list) : list[j].name = list[k].name => j = k

\* C14: for every document A whose names are unique within each list, the
\* merged clusters, users and contexts of the set whose members all hold A
\* equal A's own lists: same names, same values, same order.
C14_SameDocumentTwice ==
    ( /\ last.op \in {"clusters", "users", "contexts"}
      /\ \A i \in Ids : configs[i].raw = configs[1].raw
      /\ UniqueNames(configs[1].raw[last.op]) )
    => /\ last.result = "ok"
       /\ last.value = <<configs[1].raw[last.op]>>

C14_Witness ==
    /\ last.op = "clusters" /\ last.result = "ok"
    /\ \A i \in Ids : configs[i].raw = configs[1].raw
    /\ Len(configs[1].raw.clusters) = MaxLen
    /\ UniqueNames(configs[1].raw.clusters)
    /\ last.value = <<configs[1].raw.clusters>>

(***************************************************************************)
(* Construction.  KubeConfig takes a path and a content; KubeConfigSet     *)
(* takes any number of positional arguments and hands each of them, as one *)
(* argument, to KubeConfig.                                                *)
(***************************************************************************)
KubeConfig_init(args) ==
    IF Len(args) # 2 THEN <<"TypeError">>
    ELSE <<"ok", [path |-> args[1], raw |-> args[2]]>>

KubeConfigSet_init(fls, kubeconfigs) ==
    LET made == [k \in 1..Len(kubeconfigs) |-> KubeConfig_init(<<kubeconfigs[k]>>)]
    IN IF \E k \in 1..Len(made) : made[k][1] # "ok"
       THEN Raise(<<>>, fls, "TypeError", <<>>)
       ELSE Outcome([k \in 1..Len(made) |-> made[k][2]], fls, "ok", <<>>, <<>>)

InitNew ==
    \E docs \in [Ids -> UNION {InitDocs(i) : i \in Ids}] :
        /\ \A i \in Ids : docs[i] \in InitDocs(i)
        /\ configs = <<>>
        /\ files = [i \in Ids |-> yaml_safe_dump(docs[i])]
        /\ locks = [i \in Ids |-> 0]
        /\ tasks = [t \in TaskIds |-> Idle]
        /\ history = [i \in Ids |-> [supplied |-> FALSE, assigned |-> 0, overwritten |-> FALSE]]
        /\ last = NoCall

(* The (path, content) pairs of the first n files, content given or None. *)
Pairs(n) ==
    {p \in [1..n -> {<<PathOf(i), raw>> : i \in Ids, raw \in {NoneRaw} \cup {files[j].data : j \in Ids}}] :
        \A k \in 1..n : p[k][1] = PathOf(k) /\ p[k][2] \in {NoneRaw, files[k].data}}

NewKubeConfig(path, raw) ==
    /\ LET r == KubeConfig_init(<<path, raw>>)
       IN Return("KubeConfig", 1, <<path, raw>>,
                 IF r[1] = "ok" THEN Outcome(<<r[2]>>, files, "ok", <<>>, <<>>)
                 ELSE Raise(<<>>, files, r[1], <<>>))
    /\ UNCHANGED history

NewKubeConfigSet(kubeconfigs) ==
    /\ Return("KubeConfigSet", 0, kubeconfigs, KubeConfigSet_init(files, kubeconfigs))
    /\ UNCHANGED history

NextNew ==
    \/ \E p \in Pairs(1) : NewKubeConfig(p[1][1], p[1][2])
    \/ \E n \in 0..NumConfigs : \E kubeconfigs \in Pairs(n) : NewKubeConfigSet(kubeconfigs)

SpecNew == InitNew /\ [][NextNew]_vars

\* C15: constructing a KubeConfigSet from N >= 1 (path, optional content)
\* pairs succeeds and yields exactly N members, in order, the i-th holding the
\* i-th pair's path and content.
C15_ConstructsMembers ==
    (last.op = "KubeConfigSet" /\ Len(last.args) >= 1) =>
        /\ last.result = "ok"
        /\ Len(configs) = Len(last.args)
        /\ \A k \in 1..Len(last.args) :
              configs[k] = [path |-> last.args[k][1], raw |-> last.args[k][2]]

\* C16: current_namespace of a KubeConfig, or of a KubeConfigSet, equals the
\* namespace field of the context named by current_context (for a set: of the
\* merged entry, which is the last defining member's), and "default" when that
\* context has no namespace field.
C16_CurrentNamespace ==
    (last.op = "current_namespace" /\ last.result = "ok") =>
        IF last.target = 0
        THEN LET cc == configs[1].raw.cc
                 list == configs[LastMemberWith(configs, "contexts", cc)].raw.contexts
                 ns == list[LastPosition(list, cc)].context.namespace
             IN last.value = <<IF ns = NoNamespace THEN "default" ELSE ns>>
        ELSE LET raw == configs[last.target].raw
             IN \E k \in 1..Len(raw.contexts) :
                    /\ raw.contexts[k].name = raw.cc
                    /\ last.value = << IF raw.contexts[k].context.namespace = NoNamespace
                                       THEN "default"
                                       ELSE raw.contexts[k].context.namespace >>

C16_Witness ==
    /\ last.n = 2
    /\ last.op = "current_namespace" /\ last.target = 0 /\ last.result = "ok"
    /\ last.value = <<"n1">>
    /\ configs[1].raw.cc = "a"
    /\ Defines(configs, NumConfigs, "a")
    /\ \E k \in 1..Len(configs[1].raw.contexts) :
          /\ configs[1].raw.contexts[k].name = "a"
          /\ configs[1].raw.contexts[k].context.namespace = NoNamespace

SetRenamed ==
    /\ CallStep
    /\ last'.op = "rename_context" /\ last'.target = 0 /\ last'.result = "ok"

\* C17 as stated: when the set's rename_context(old, new) renames in member M
\* and M's own current-context was old before the call, the set's current
\* context is new after the call, also when M is not the first member.
C17_MemberCurrentPropagates ==
    [][ ( /\ SetRenamed
          /\ configs[FirstDefining(configs, last'.args[1])].raw.cc = last'.args[1] )
        => KubeConfigSet_current_context(configs') = last'.args[2]
      ]_vars

\* C17, amended: when the set's rename_context(old, new) renames in member M
\* and the set's current context (the first member's) was old before the call,
\* the set's current context is new after the call, also when M is not the
\* first member; M's own current-context does not decide it.
C17_SetCurrentPropagates ==
    [][ ( /\ SetRenamed
          /\ KubeConfigSet_current_context(configs) = last'.args[1] )
        => /\ KubeConfigSet_current_context(configs') = last'.args[2]
           /\ last'.saved[Len(last'.saved)] = 1
      ]_vars

C17_Witness ==
    /\ last.n = 1
    /\ last.op = "rename_context" /\ last.target = 0 /\ last.result = "ok"
    /\ last.args = <<"a", "b">>
    /\ ~Defines(configs, 1, "a") /\ ~Defines(configs, 1, "b")
    /\ configs[1].raw.cc = "b"
    /\ NamesOf(configs[NumConfigs].raw.contexts) = {"b"}
    /\ configs[NumConfigs].raw.cc = "b"
    /\ last.saved = <<NumConfigs, NumConfigs, 1>>

SetCurrentDefined(cfgs) ==
    /\ AllLoaded(cfgs)
    /\ KubeConfigSet_current_context(cfgs) \in NamesOf(KubeConfigSet_contexts(cfgs))

\* C18: if the set's current context names a context of the merged list, it
\* still does after any call of the set's use_context, rename_context or
\* use_namespace, whether the call succeeds or fails.
C18_CurrentStaysDefined ==
    [][ ( /\ CallStep
          /\ last'.target = 0
          /\ last'.op \in {"use_context", "rename_context", "use_namespace"}
          /\ SetCurrentDefined(configs) )
        => SetCurrentDefined(configs')
      ]_vars

C18_Witness ==
    /\ last.n = MaxCalls
    /\ last.op = "rename_context" /\ last.target = 0 /\ last.result = "ok"
    /\ last.args = <<"a", "b">>
    /\ SetCurrentDefined(configs)
    /\ KubeConfigSet_current_context(configs) = "b"
    /\ ~Defines(configs, 1, "b")
    /\ \E i \in Ids : Defines(configs, i, "a")
    /\ \E i \in Ids : \E k \in 1..Len(configs[i].raw.contexts) :
          configs[i].raw.contexts[k].context.namespace = "n1"

EntriesNamed(cfgs, name) ==
    {<<i, k>> \in Ids \X (1..MaxLen) :
        /\ Truthy(cfgs[i].raw)
        /\ k <= Len(cfgs[i].raw.contexts)
        /\ cfgs[i].raw.contexts[k].name = name}

Replaced(list, old, new) ==
    [k \in 1..Len(list) |->
        IF list[k].name = old THEN [list[k] EXCEPT !.name = new] ELSE list[k]]

RenamedInMerged(old, new) ==
    LET before == KubeConfigSet_contexts(configs)
        after == KubeConfigSet_contexts(configs')
    IN /\ after = Replaced(before, old, new)
       /\ KubeConfigSet_get_context(configs', files', old).result = "NotFound"
       /\ KubeConfigSet_get_context(configs', files', new).result = "ok"
       /\ KubeConfigSet_get_context(configs', files', new).value
              = KubeConfigSet_get_context(configs, files, old).value

\* C19 as stated: after a successful set rename_context(old, new) with new
\* defined by no member before, the merged context list is the previous one
\* with old replaced by new, get_context(old) fails with NotFound and
\* get_context(new) returns what get_context(old) returned before (every
\* member being loaded, so that the merged list can be read).
C19_RenameInMergedList ==
    [][ ( /\ SetRenamed
          /\ AllLoaded(configs)
          /\ EntriesNamed(configs, last'.args[2]) = {} )
        => RenamedInMerged(last'.args[1], last'.args[2])
      ]_vars

\* C19, amended: the same, when old is the name of exactly one context entry
\* over all members before the call.
C19_RenameUniqueInMergedList ==
    [][ ( /\ SetRenamed
          /\ AllLoaded(configs)
          /\ EntriesNamed(configs, last'.args[2]) = {}
          /\ Cardinality(EntriesNamed(configs, last'.args[1])) = 1 )
        => RenamedInMerged(last'.args[1], last'.args[2])
      ]_vars

C19_Witness ==
    /\ last.n = 1
    /\ last.op = "rename_context" /\ last.target = 0 /\ last.result = "ok"
    /\ last.args = <<"a", FreshName>>
    /\ AllLoaded(configs)
    /\ NamesOf(configs[1].raw.contexts) = {"b"}
    /\ Len(configs[NumConfigs].raw.contexts) = 2
    /\ configs[NumConfigs].raw.contexts[1].name = FreshName
    /\ configs[NumConfigs].raw.contexts[2].name = "b"
    /\ configs[1].raw.cc = FreshName
    /\ NamesOf(KubeConfigSet_contexts(configs)) = {"b", FreshName}
    /\ KubeConfigSet_contexts(configs)[2].name = FreshName


\* C20: save never destroys a document: a call leaves every file either as it
\* was (so a save with content absent leaves the file unchanged) or holding
\* the present in-memory content of its member, hence a file always holds its
\* original document or a present in-memory document.
C20_SaveKeepsDocument ==
    [][ CallStep =>
          \A i \in Ids :
             \/ files'[i] = files[i]
             \/ /\ Truthy(configs'[i].raw)
                /\ files'[i] = yaml_safe_dump(configs'[i].raw)
      ]_vars
====
